---- MODULE Spec2Model ----
(***************************************************************************)
(* TRNG post-processing pipeline of trng-MiBiS-XOR: bit extraction, the    *)
(* MiBiS bisection mixer with XOR compression (single and dual mixer), the *)
(* SHA3 whitening stage, bit packing, and the batch loop of                *)
(* TrngGenerator.generate.                                                 *)
(*                                                                         *)
(* Python sequences are 0-based.  Bit streams are TLA+ sequences (1-based) *)
(* read through At(s, i) with the source's 0-based index i; the mix buffer *)
(* is a function on 0 .. buffer_size-1 so that slot numbers are the        *)
(* source's.                                                               *)
(***************************************************************************)
EXTENDS Integers, Sequences, FiniteSets, TLC

VARIABLES
    \* ---- _process_with_single_mixer / _mix_bits, one round per step ----
    input_bits,          \* the bits handed to the mixer
    steps,               \* _calculate_mixing_steps(len(input_bits))
    mixed_buffer,        \* the MiBiS buffer, slot -> bit
    occupied_positions,  \* the list of occupied slots
    input_idx,           \* index of the next input bit to insert
    step,                \* the round loop variable (1 before the first round)
    output_bits,         \* result of _xor_adjacent_bits
    mpc                  \* position inside _process_with_single_mixer

mixVars == <<input_bits, steps, mixed_buffer, occupied_positions, input_idx,
             step, output_bits, mpc>>

VARIABLES
    \* ---- _process_with_dual_mixers ----
    dual_input,          \* the bits handed to the dual mixer
    dual_output,         \* its result
    dpc                  \* "start" or "done"

dualVars == <<dual_input, dual_output, dpc>>

VARIABLES
    \* ---- FileOperations.save_bits_to_file ----
    bits_arg,            \* the bits argument
    bytes_data,          \* the bytes written to the file
    save_result,         \* the value returned
    fpc                  \* "start" or "saved"

packVars == <<bits_arg, bytes_data, save_result, fpc>>

VARIABLES
    \* ---- TrngGenerator._generate_and_save_sha3 ----
    data_len,            \* len(data), the bytes read from the input file
    sha3_target,         \* the target_bits argument
    num_hashes_needed,   \* (target_bits + 255) // 256
    chunk_size,          \* the chunk size in bytes
    sha3_hashes,         \* the hash invocations so far, in order: data[lo:hi] + salt
    sha3_bits_len,       \* len(all_sha3_bits), then len(sha3_bits_array)
    sha3_error,          \* the exception that ended the call, or "none"
    wpc                  \* position inside _generate_and_save_sha3

whitenVars == <<data_len, sha3_target, num_hashes_needed, chunk_size,
                sha3_hashes, sha3_bits_len, sha3_error, wpc>>

VARIABLES
    \* ---- TrngGenerator, generate ----
    target_bits,           \* self.target_bits
    batch_size,            \* self.batch_size
    use_dual_mixers,       \* self.use_dual_mixers
    method,                \* self.bit_extractor.method
    bits_per_sample,       \* self.bit_extractor.bits_per_sample
    total_bits_generated,  \* self.total_bits_generated
    all_raw_bits,          \* accumulated raw bits
    all_processed_bits,    \* accumulated mixed bits
    files,                 \* the three output files: absent, stale or written
    stream_open,           \* the audio stream is open (inside `with`)
    capture_calls,         \* calls of AudioCapture.capture_audio so far
    extract_done,          \* extractions that returned bits so far
    mix_calls,             \* calls of MiBiSXOR.process_bits so far
    error,                 \* the exception that ended generate, or "none"
    pc                     \* position inside generate

batchVars == <<target_bits, batch_size, use_dual_mixers, method, bits_per_sample,
               total_bits_generated, all_raw_bits, all_processed_bits, files,
               stream_open, capture_calls, extract_done, mix_calls, error, pc>>

vars == <<mixVars, dualVars, packVars, whitenVars, batchVars>>

----------------------------------------------------------------------------
\* Bounds of the model.

\* longest bit sequence handed to the stepwise mixer
MaxBits == 9

\* longest bit sequence handed to the dual mixer
MaxDualBits == 8

\* longest bit sequence handed to save_bits_to_file
MaxPackBits == 9

\* largest len(data) handed to _generate_and_save_sha3
MaxDataLen == 130

\* largest target_bits handed to _generate_and_save_sha3
MaxSha3Target == 520

\* largest target_bits of a generator
MaxTarget == 2

\* largest batch_size of a generator
MaxBatch == 2

\* most samples one capture returns
MaxSamples == 1

----------------------------------------------------------------------------
\* Arithmetic helpers.

Min(a, b) == IF a < b THEN a ELSE b

Max(a, b) == IF a > b THEN a ELSE b

\* s[i] with the source's 0-based index
At(s, i) == s[i + 1]

\* s[:k] of a Python sequence, k >= 0
Prefix(s, k) == SubSeq(s, 1, Min(k, Len(s)))

\* s[k:] of a Python sequence, k >= 0
Suffix(s, k) == SubSeq(s, Min(k, Len(s)) + 1, Len(s))

\* a ^ b on bits
Xor(a, b) == (a + b) % 2

\* floor(log2(x)) for x >= 1
RECURSIVE FloorLog2(_)
FloorLog2(x) ==
    IF x < 2 THEN 0 ELSE 1 + FloorLog2(x \div 2)

\* all bit sequences of length 0 .. n
BitSeqs(n) == UNION {[1..k -> {0, 1}] : k \in 0..n}

----------------------------------------------------------------------------
\* MiBiSXOR (mibis_xor.py)

calculate_mixing_steps_of_n(num_bits) ==
    IF num_bits <= 1 THEN 1 ELSE FloorLog2(num_bits) + 1

\* _calculate_mixing_steps: floor(log2(num_bits - 1) + 1), 1 for num_bits <= 1
calculate_mixing_steps(num_bits) ==
    IF num_bits <= 1 THEN 1 ELSE FloorLog2(num_bits - 1) + 1

\* buffer_size = 2 ** (steps - 1) + 1
buffer_size(nsteps) == 2 ^ (nsteps - 1) + 1

middle_pos_half_gap(left_pos, right_pos) == (right_pos - left_pos) \div 2

\* middle_pos = (left_pos + right_pos) // 2
middle_pos(left_pos, right_pos) == (left_pos + right_pos) \div 2

last_round_extra(nsteps) == nsteps + 1

\* the last value of `for step in range(2, steps + 1)`
last_round(nsteps) == nsteps

merge_positions_unsorted(occupied, new_positions) == occupied \o new_positions

\* occupied_positions.extend(new_positions); occupied_positions.sort()
merge_positions(occupied, new_positions) ==
    SortSeq(occupied \o new_positions, LAMBDA a, b : a < b)

\* _mix_bits up to the round loop: the zeroed buffer with the first two
\* input bits placed.  For steps == 1 the source returns here and never
\* creates input_idx or occupied_positions (modelled as 0 and << >>).
mix_first(bits, nsteps) ==
    LET m  == buffer_size(nsteps)
        b0 == [i \in 0..(m - 1) |-> 0]
        b1 == IF Len(bits) > 0 THEN [b0 EXCEPT ![0] = At(bits, 0)] ELSE b0
        b2 == IF Len(bits) > 1
              THEN IF nsteps = 1 THEN [b1 EXCEPT ![1] = At(bits, 1)]
                                 ELSE [b1 EXCEPT ![m - 1] = At(bits, 1)]
              ELSE b1
    IN  IF nsteps = 1
        THEN [buf |-> b2, idx |-> 0, occ |-> << >>]
        ELSE [buf |-> b2, idx |-> 2, occ |-> <<0, m - 1>>]

\* the inner loop `for i in range(len(occupied_positions) - 1)` from pair i on
\* (i is the 1-based number of the pair); st = [buf, idx, new]
RECURSIVE scan_pairs(_, _, _, _)
scan_pairs(st, occ, bits, i) ==
    IF i > Len(occ) - 1 THEN st
    ELSE LET mid == middle_pos(occ[i], occ[i + 1])
         IN  IF st.idx < Len(bits) /\ st.buf[mid] = 0
             THEN scan_pairs([buf |-> [st.buf EXCEPT ![mid] = At(bits, st.idx)],
                              idx |-> st.idx + 1,
                              new |-> Append(st.new, mid)],
                             occ, bits, i + 1)
             ELSE scan_pairs(st, occ, bits, i + 1)

\* one iteration of the round loop; st = [buf, idx, occ]
mix_round(st, bits) ==
    LET s == scan_pairs([buf |-> st.buf, idx |-> st.idx, new |-> << >>],
                        st.occ, bits, 1)
    IN  [buf |-> s.buf, idx |-> s.idx, occ |-> merge_positions(st.occ, s.new)]

\* the round loop from round r on, with its break
RECURSIVE mix_rounds(_, _, _, _)
mix_rounds(st, bits, r, last) ==
    IF r > last THEN st
    ELSE LET s == mix_round(st, bits)
         IN  IF s.idx >= Len(bits) THEN s ELSE mix_rounds(s, bits, r + 1, last)

\* _mix_bits(input_bits, steps): the returned buffer
mix_bits(bits, nsteps) ==
    IF nsteps = 1 THEN mix_first(bits, nsteps).buf
    ELSE mix_rounds(mix_first(bits, nsteps), bits, 2, last_round(nsteps)).buf

\* number of slots of a buffer
BufLen(buf) == Cardinality(DOMAIN buf)

xor_adjacent_bits_short(mixed_bits) ==
    [k \in 1..((BufLen(mixed_bits) - 1) \div 2) |->
        Xor(mixed_bits[2 * (k - 1)], mixed_bits[2 * (k - 1) + 1])]

\* _xor_adjacent_bits: for i in range(0, len - 1, 2): bits[i] ^ bits[i+1]
xor_adjacent_bits(mixed_bits) ==
    [k \in 1..(BufLen(mixed_bits) \div 2) |->
        Xor(mixed_bits[2 * (k - 1)], mixed_bits[2 * (k - 1) + 1])]

\* _process_with_single_mixer
process_with_single_mixer(bits) ==
    xor_adjacent_bits(mix_bits(bits, calculate_mixing_steps(Len(bits))))

dual_midpoint_up(n) == (n + 1) \div 2

\* midpoint = len(input_bits) // 2
dual_midpoint(n) == n \div 2

\* _process_with_dual_mixers
process_with_dual_mixers(bits) ==
    LET midpoint == dual_midpoint(Len(bits))
        bits1    == Prefix(bits, midpoint)
        bits2    == Suffix(bits, midpoint)
        steps1   == calculate_mixing_steps(Len(bits1))
        steps2   == calculate_mixing_steps(Len(bits2))
        mixed1   == mix_bits(bits1, steps1)
        mixed2   == mix_bits(bits2, steps2)
        output1  == xor_adjacent_bits(mixed1)
        output2  == xor_adjacent_bits(mixed2)
    IN  output1 \o output2

\* process_bits(input_bits, max_bits): cap the input, then one of the modes
process_bits(bits, max_bits, use_dual) ==
    LET capped == IF max_bits < Len(bits) THEN Prefix(bits, max_bits) ELSE bits
    IN  IF use_dual THEN process_with_dual_mixers(capped)
                    ELSE process_with_single_mixer(capped)

----------------------------------------------------------------------------
\* FileOperations (file_operations.py)

\* bits per packed byte (the inner loop `for j in range(8)`)
ByteBits == 8

\* padding_bits = (8 - len(bits) % 8) % 8
padding_bits(n) == (ByteBits - (n % ByteBits)) % ByteBits

\* the bits after `bits = np.append(bits, np.zeros(padding_bits))`
padded_bits(bits) ==
    bits \o [k \in 1..padding_bits(Len(bits)) |-> 0]

\* byte_val |= bits[i * 8 + j] << (7 - j), for j in range(8)
RECURSIVE byte_val(_, _, _)
byte_val(bits, i, j) ==
    IF j >= ByteBits THEN 0
    ELSE At(bits, i * ByteBits + j) * 2 ^ (ByteBits - 1 - j) + byte_val(bits, i, j + 1)

\* the bytes written: one per 8 padded bits, most significant bit first
pack_bytes(bits) ==
    LET p == padded_bits(bits)
    IN  [i \in 1..(Len(p) \div ByteBits) |-> byte_val(p, i - 1, 0)]

\* save_bits_to_file returns len(bits) of the rebound, padded bits
save_bits_return(bits) == Len(padded_bits(bits))

\* load_bits_from_file: (byte >> i) & 1 for i in 7 .. 0, of every byte
load_bits(bytes) ==
    [k \in 1..(Len(bytes) * ByteBits) |->
        (bytes[((k - 1) \div ByteBits) + 1]
            \div 2 ^ (ByteBits - 1 - ((k - 1) % ByteBits))) % 2]

----------------------------------------------------------------------------
\* BitExtractor (bit_extraction.py)

\* the methods extract_bits knows
KnownMethods == {"lsb", "threshold", "optimized"}

method_known_always(m) == TRUE

\* the if/elif chain of extract_bits: anything else raises ValueError
method_known(m) == m \in KnownMethods

\* np.bitwise_and(audio_samples, 1)
extract_lsb(samples) ==
    [i \in 1..Len(samples) |-> samples[i] % 2]

\* (audio_samples > 0)
extract_threshold(samples) ==
    [i \in 1..Len(samples) |-> IF samples[i] > 0 THEN 1 ELSE 0]

\* bit_pos: bits 0 and 1, then bits 4, 5
bit_pos(i) == IF i < 2 THEN i ELSE i + 2

\* extract_optimized_bits: bits_per_sample clamped to 1 .. 4; the bit planes
\* interleaved per sample (result[i::k] = plane i)
extract_optimized_bits(samples, bps) ==
    LET k == Max(1, Min(4, bps))
    IN  IF k = 1 THEN extract_lsb(samples)
        ELSE [n \in 1..(Len(samples) * k) |->
                LET j == (n - 1) \div k
                    i == (n - 1) % k
                IN  IF (At(samples, j) \div (2 ^ bit_pos(i))) % 2 = 1
                    THEN 1 ELSE 0]

\* extract_bits for a known method
extract_bits(samples, m, bps) ==
    CASE m = "lsb"       -> extract_lsb(samples)
      [] m = "threshold" -> extract_threshold(samples)
      [] m = "optimized" -> extract_optimized_bits(samples, bps)
      [] OTHER           -> << >>

----------------------------------------------------------------------------
\* TrngGenerator._generate_and_save_sha3 (main.py)

\* bits of one SHA3-256 digest: 32 bytes, 8 bits each
HashBits == 256

\* chunk_size = max(chunk_size, 64)
MinChunkSize == 64

\* min(num_hashes_needed, 1000)
MaxChunks == 1000

\* num_hashes_needed = (target_bits + 255) // 256
hashes_needed(target) == (target + 255) \div HashBits

\* chunk_size = max(len(data) // min(num_hashes_needed, 1000), 64);
\* the division raises ZeroDivisionError when num_hashes_needed is 0
sha3_chunk_size(len, num) == Max(len \div Min(num, MaxChunks), MinChunkSize)

\* min(num_hashes_needed, len(data) // chunk_size)
chunk_hash_count(len, num, csize) == Min(num, len \div csize)

\* the first loop: hash i covers data[i*chunk_size : (i+1)*chunk_size], salt i
chunk_hashes(len, num, csize) ==
    [k \in 1..chunk_hash_count(len, num, csize) |->
        [lo   |-> (k - 1) * csize,
         hi   |-> Min(k * csize, len),
         salt |-> k - 1]]

\* remaining_hashes
remaining_hashes(len, num, csize) == num - Min(num, len \div csize)

\* the second loop: hash i covers the whole data, salt len(data)//chunk_size + i
whole_data_hashes(len, num, csize) ==
    [k \in 1..remaining_hashes(len, num, csize) |->
        [lo   |-> 0,
         hi   |-> len,
         salt |-> (len \div csize) + (k - 1)]]

\* len(sha3_bits_array[:target_bits])
sha3_truncate(nbits, target) == Min(nbits, target)

\* `import hashlib` is a statement inside generate (line 87), so the name is
\* local to generate: in _generate_and_save_sha3 the global name hashlib is
\* unbound and the first hashlib.sha3_256 call raises NameError.
hashlib_bound == FALSE

\* _generate_and_save_sha3(input_file, output_file, target_bits) for
\* target_bits >= 0 and len(data) = len: how it ends, whether the output file
\* was written, and len of the bit array returned
generate_and_save_sha3(len, target) ==
    LET num == hashes_needed(target)
    IN  IF num = 0
        THEN [error |-> "ZeroDivisionError", saved |-> FALSE, nbits |-> 0]
        ELSE LET csize == sha3_chunk_size(len, num)
                 first == chunk_hashes(len, num, csize)
                 rest  == whole_data_hashes(len, num, csize)
             IN  IF Len(first) + Len(rest) > 0 /\ ~hashlib_bound
                 THEN [error |-> "NameError", saved |-> FALSE, nbits |-> 0]
                 ELSE [error |-> "none", saved |-> TRUE,
                       nbits |-> sha3_truncate(
                                     HashBits * (Len(first) + Len(rest)), target)]

----------------------------------------------------------------------------
\* _process_with_single_mixer as a state machine, _mix_bits one round at a
\* time.

\* steps = self._calculate_mixing_steps(num_bits)
CalcSteps ==
    /\ mpc = "start"
    /\ steps' = calculate_mixing_steps(Len(input_bits))
    /\ mpc' = "steps"
    /\ UNCHANGED <<input_bits, mixed_buffer, occupied_positions, input_idx,
                   step, output_bits>>
    /\ UNCHANGED <<dualVars, packVars, whitenVars, batchVars>>

\* _mix_bits up to the round loop (the whole of it when steps == 1)
MixBegin ==
    /\ mpc = "steps"
    /\ LET s == mix_first(input_bits, steps)
       IN  /\ mixed_buffer' = s.buf
           /\ input_idx' = s.idx
           /\ occupied_positions' = s.occ
    /\ mpc' = IF steps = 1 THEN "mixed" ELSE "rounds"
    /\ UNCHANGED <<input_bits, steps, step, output_bits>>
    /\ UNCHANGED <<dualVars, packVars, whitenVars, batchVars>>

\* one iteration of `for step in range(2, steps + 1)`, with the break
MixRound ==
    /\ mpc = "rounds"
    /\ step < last_round(steps)
    /\ LET s == mix_round([buf |-> mixed_buffer, idx |-> input_idx,
                           occ |-> occupied_positions], input_bits)
       IN  /\ mixed_buffer' = s.buf
           /\ input_idx' = s.idx
           /\ occupied_positions' = s.occ
           /\ mpc' = IF s.idx >= Len(input_bits) \/ step + 1 >= last_round(steps)
                     THEN "mixed" ELSE "rounds"
    /\ step' = step + 1
    /\ UNCHANGED <<input_bits, steps, output_bits>>
    /\ UNCHANGED <<dualVars, packVars, whitenVars, batchVars>>

\* output_bits = self._xor_adjacent_bits(mixed_bits)
XorAdjacent ==
    /\ mpc = "mixed"
    /\ output_bits' = xor_adjacent_bits(mixed_buffer)
    /\ mpc' = "done"
    /\ UNCHANGED <<input_bits, steps, mixed_buffer, occupied_positions,
                   input_idx, step>>
    /\ UNCHANGED <<dualVars, packVars, whitenVars, batchVars>>

MixNext == CalcSteps \/ MixBegin \/ MixRound \/ XorAdjacent

----------------------------------------------------------------------------
\* _process_with_dual_mixers applied to an input.

ProcessDual ==
    /\ dpc = "start"
    /\ dual_output' = process_with_dual_mixers(dual_input)
    /\ dpc' = "done"
    /\ UNCHANGED <<dual_input, mixVars, packVars, whitenVars, batchVars>>

----------------------------------------------------------------------------
\* FileOperations.save_bits_to_file applied to an input.

SaveBitsToFile ==
    /\ fpc = "start"
    /\ bytes_data' = pack_bytes(bits_arg)
    /\ save_result' = save_bits_return(bits_arg)
    /\ fpc' = "saved"
    /\ UNCHANGED <<bits_arg, mixVars, dualVars, whitenVars, batchVars>>

----------------------------------------------------------------------------
\* _generate_and_save_sha3 as a state machine.

\* lines 101-110: read the file, num_hashes_needed and chunk_size; the
\* division by min(num_hashes_needed, 1000) raises when target_bits is 0
PlanHashes ==
    /\ wpc = "start"
    /\ num_hashes_needed' = hashes_needed(sha3_target)
    /\ IF hashes_needed(sha3_target) = 0
       THEN /\ sha3_error' = "ZeroDivisionError"
            /\ wpc' = "failed"
            /\ UNCHANGED chunk_size
       ELSE /\ chunk_size' = sha3_chunk_size(data_len, hashes_needed(sha3_target))
            /\ wpc' = "planned"
            /\ UNCHANGED sha3_error
    /\ UNCHANGED <<data_len, sha3_target, sha3_hashes, sha3_bits_len>>
    /\ UNCHANGED <<mixVars, dualVars, packVars, batchVars>>

\* lines 113-121: the hashes of the file fragments; the first hashlib.sha3_256
\* call raises NameError
HashChunks ==
    /\ wpc = "planned"
    /\ LET hs == chunk_hashes(data_len, num_hashes_needed, chunk_size)
       IN  IF Len(hs) > 0 /\ ~hashlib_bound
           THEN /\ sha3_error' = "NameError"
                /\ wpc' = "failed"
                /\ UNCHANGED <<sha3_hashes, sha3_bits_len>>
           ELSE /\ sha3_hashes' = sha3_hashes \o hs
                /\ sha3_bits_len' = sha3_bits_len + HashBits * Len(hs)
                /\ wpc' = "chunked"
                /\ UNCHANGED sha3_error
    /\ UNCHANGED <<data_len, sha3_target, num_hashes_needed, chunk_size>>
    /\ UNCHANGED <<mixVars, dualVars, packVars, batchVars>>

\* lines 124-144: the hashes of the whole file with a counter (the first
\* hashlib.sha3_256 call raises NameError), then truncate to target_bits,
\* save and return
HashWholeDataAndSave ==
    /\ wpc = "chunked"
    /\ LET hs == whole_data_hashes(data_len, num_hashes_needed, chunk_size)
       IN  IF Len(hs) > 0 /\ ~hashlib_bound
           THEN /\ sha3_error' = "NameError"
                /\ wpc' = "failed"
                /\ UNCHANGED <<sha3_hashes, sha3_bits_len>>
           ELSE /\ sha3_hashes' = sha3_hashes \o hs
                /\ sha3_bits_len' =
                       sha3_truncate(sha3_bits_len + HashBits * Len(hs), sha3_target)
                /\ wpc' = "done"
                /\ UNCHANGED sha3_error
    /\ UNCHANGED <<data_len, sha3_target, num_hashes_needed, chunk_size>>
    /\ UNCHANGED <<mixVars, dualVars, packVars, batchVars>>

WhitenNext == PlanHashes \/ HashChunks \/ HashWholeDataAndSave

----------------------------------------------------------------------------
\* TrngGenerator.generate as a state machine.

FileNames == {"raw", "mibis", "sha3"}

\* the extraction methods a generator is constructed with; "entropy" is one
\* that extract_bits does not know
Methods == KnownMethods \cup {"entropy"}

\* bits_per_sample values: the constructor's default and the command line's
BitsPerSampleVals == {1, 4}

\* sample values a capture returns (signed 16-bit)
SampleVals == {-1, 0, 18}

\* what one capture_audio call can return: the sample count depends on the
\* duration and on how many reads failed
Captures == UNION {[1..k -> SampleVals] : k \in 0..MaxSamples}

\* no file of that name
AbsentFile == [kind |-> "absent", bytes |-> << >>, nbits |-> 0]

\* a file left by an earlier run
StaleFile == [kind |-> "stale", bytes |-> << >>, nbits |-> 0]

\* a file as save_bits_to_file writes it
saved_file(bits) ==
    [kind |-> "bits", bytes |-> pack_bytes(bits), nbits |-> Len(padded_bits(bits))]

\* the file of hash bits (the digests are not modelled, only their number)
sha3_file(n) == [kind |-> "sha3", bytes |-> << >>, nbits |-> n]

processed_keep_all(bits, bits_needed) == bits

\* new_processed_bits = new_processed_bits[:bits_needed]
processed_truncate(bits, bits_needed) == Prefix(bits, bits_needed)

\* lines 47-59: remove old output files, empty accumulators, open the stream
StartGenerate ==
    /\ pc = "constructed"
    /\ files' = [f \in FileNames |-> AbsentFile]
    /\ all_raw_bits' = << >>
    /\ all_processed_bits' = << >>
    /\ stream_open' = TRUE
    /\ pc' = "loop"
    /\ UNCHANGED <<target_bits, batch_size, use_dual_mixers, method,
                   bits_per_sample, total_bits_generated, capture_calls,
                   extract_done, mix_calls, error>>
    /\ UNCHANGED <<mixVars, dualVars, packVars, whitenVars>>

\* lines 60-77: one iteration of the batch loop
BatchIteration ==
    /\ pc = "loop"
    /\ total_bits_generated < target_bits
    /\ method_known(method)
    /\ \E audio_data \in Captures :
          LET bits_needed        == Min(batch_size, target_bits - total_bits_generated)
              new_raw_bits       == extract_bits(audio_data, method, bits_per_sample)
              new_processed_bits ==
                  processed_truncate(
                      process_bits(new_raw_bits, bits_needed * 2, use_dual_mixers),
                      bits_needed)
          IN  /\ all_raw_bits' = all_raw_bits \o new_raw_bits
              /\ all_processed_bits' = all_processed_bits \o new_processed_bits
              /\ total_bits_generated' =
                     total_bits_generated + Len(new_processed_bits)
    /\ capture_calls' = capture_calls + 1
    /\ extract_done' = extract_done + 1
    /\ mix_calls' = mix_calls + 1
    /\ UNCHANGED <<target_bits, batch_size, use_dual_mixers, method,
                   bits_per_sample, files, stream_open, error, pc>>
    /\ UNCHANGED <<mixVars, dualVars, packVars, whitenVars>>

\* lines 60-66: the iteration when extract_bits raises ValueError; the
\* capture of line 64 has been made, `with` closes the stream
BatchIterationRaises ==
    /\ pc = "loop"
    /\ total_bits_generated < target_bits
    /\ ~method_known(method)
    /\ capture_calls' = capture_calls + 1
    /\ stream_open' = FALSE
    /\ error' = "ValueError"
    /\ pc' = "failed"
    /\ UNCHANGED <<target_bits, batch_size, use_dual_mixers, method,
                   bits_per_sample, total_bits_generated, all_raw_bits,
                   all_processed_bits, files, extract_done, mix_calls>>
    /\ UNCHANGED <<mixVars, dualVars, packVars, whitenVars>>

\* lines 60, 79-98: the loop ends and `with` closes the stream; the raw and
\* the mixed bits are saved; _generate_and_save_sha3 reads the mixed file and
\* either raises (the exception leaves generate) or writes the third file
FinishGenerate ==
    /\ pc = "loop"
    /\ total_bits_generated >= target_bits
    /\ stream_open' = FALSE
    /\ LET sha3 == generate_and_save_sha3(Len(pack_bytes(all_processed_bits)),
                                          target_bits)
       IN  /\ files' = [f \in FileNames |->
                           CASE f = "raw"   -> saved_file(all_raw_bits)
                             [] f = "mibis" -> saved_file(all_processed_bits)
                             [] f = "sha3"  -> IF sha3.saved
                                               THEN sha3_file(sha3.nbits)
                                               ELSE files[f]]
           /\ error' = sha3.error
           /\ pc' = IF sha3.error = "none" THEN "done" ELSE "failed"
    /\ UNCHANGED <<target_bits, batch_size, use_dual_mixers, method,
                   bits_per_sample, total_bits_generated, all_raw_bits,
                   all_processed_bits, capture_calls, extract_done, mix_calls>>
    /\ UNCHANGED <<mixVars, dualVars, packVars, whitenVars>>

BatchNext ==
    \/ StartGenerate
    \/ BatchIteration
    \/ BatchIterationRaises
    \/ FinishGenerate

----------------------------------------------------------------------------
\* Specifications.
\* The parts of the state a specification does not use stay at their idle
\* values in its initial predicate.

\* the single mixer on every input of up to MaxBits bits
MixInit ==
    /\ input_bits \in BitSeqs(MaxBits)
    /\ steps = 0
    /\ mixed_buffer = << >>
    /\ occupied_positions = << >>
    /\ input_idx = 0
    /\ step = 1
    /\ output_bits = << >>
    /\ mpc = "start"
    /\ dual_input = << >>
    /\ dual_output = << >>
    /\ dpc = "idle"
    /\ bits_arg = << >>
    /\ bytes_data = << >>
    /\ save_result = 0
    /\ fpc = "idle"
    /\ data_len = 0
    /\ sha3_target = 0
    /\ num_hashes_needed = 0
    /\ chunk_size = 0
    /\ sha3_hashes = << >>
    /\ sha3_bits_len = 0
    /\ sha3_error = "none"
    /\ wpc = "idle"
    /\ target_bits = 0
    /\ batch_size = 1
    /\ use_dual_mixers = TRUE
    /\ method = "lsb"
    /\ bits_per_sample = 1
    /\ total_bits_generated = 0
    /\ all_raw_bits = << >>
    /\ all_processed_bits = << >>
    /\ files = [f \in FileNames |-> AbsentFile]
    /\ stream_open = FALSE
    /\ capture_calls = 0
    /\ extract_done = 0
    /\ mix_calls = 0
    /\ error = "none"
    /\ pc = "idle"

\* the dual mixer on every input of up to MaxDualBits bits
DualInit ==
    /\ input_bits = << >>
    /\ steps = 0
    /\ mixed_buffer = << >>
    /\ occupied_positions = << >>
    /\ input_idx = 0
    /\ step = 1
    /\ output_bits = << >>
    /\ mpc = "idle"
    /\ dual_input \in BitSeqs(MaxDualBits)
    /\ dual_output = << >>
    /\ dpc = "start"
    /\ bits_arg = << >>
    /\ bytes_data = << >>
    /\ save_result = 0
    /\ fpc = "idle"
    /\ data_len = 0
    /\ sha3_target = 0
    /\ num_hashes_needed = 0
    /\ chunk_size = 0
    /\ sha3_hashes = << >>
    /\ sha3_bits_len = 0
    /\ sha3_error = "none"
    /\ wpc = "idle"
    /\ target_bits = 0
    /\ batch_size = 1
    /\ use_dual_mixers = TRUE
    /\ method = "lsb"
    /\ bits_per_sample = 1
    /\ total_bits_generated = 0
    /\ all_raw_bits = << >>
    /\ all_processed_bits = << >>
    /\ files = [f \in FileNames |-> AbsentFile]
    /\ stream_open = FALSE
    /\ capture_calls = 0
    /\ extract_done = 0
    /\ mix_calls = 0
    /\ error = "none"
    /\ pc = "idle"

\* save_bits_to_file on every input of up to MaxPackBits bits
PackInit ==
    /\ input_bits = << >>
    /\ steps = 0
    /\ mixed_buffer = << >>
    /\ occupied_positions = << >>
    /\ input_idx = 0
    /\ step = 1
    /\ output_bits = << >>
    /\ mpc = "idle"
    /\ dual_input = << >>
    /\ dual_output = << >>
    /\ dpc = "idle"
    /\ bits_arg \in BitSeqs(MaxPackBits)
    /\ bytes_data = << >>
    /\ save_result = 0
    /\ fpc = "start"
    /\ data_len = 0
    /\ sha3_target = 0
    /\ num_hashes_needed = 0
    /\ chunk_size = 0
    /\ sha3_hashes = << >>
    /\ sha3_bits_len = 0
    /\ sha3_error = "none"
    /\ wpc = "idle"
    /\ target_bits = 0
    /\ batch_size = 1
    /\ use_dual_mixers = TRUE
    /\ method = "lsb"
    /\ bits_per_sample = 1
    /\ total_bits_generated = 0
    /\ all_raw_bits = << >>
    /\ all_processed_bits = << >>
    /\ files = [f \in FileNames |-> AbsentFile]
    /\ stream_open = FALSE
    /\ capture_calls = 0
    /\ extract_done = 0
    /\ mix_calls = 0
    /\ error = "none"
    /\ pc = "idle"

\* _generate_and_save_sha3 on data of 0 .. MaxDataLen bytes and a target of
\* 0 .. MaxSha3Target bits
WhitenInit ==
    /\ input_bits = << >>
    /\ steps = 0
    /\ mixed_buffer = << >>
    /\ occupied_positions = << >>
    /\ input_idx = 0
    /\ step = 1
    /\ output_bits = << >>
    /\ mpc = "idle"
    /\ dual_input = << >>
    /\ dual_output = << >>
    /\ dpc = "idle"
    /\ bits_arg = << >>
    /\ bytes_data = << >>
    /\ save_result = 0
    /\ fpc = "idle"
    /\ data_len \in 0..MaxDataLen
    /\ sha3_target \in 0..MaxSha3Target
    /\ num_hashes_needed = 0
    /\ chunk_size = 0
    /\ sha3_hashes = << >>
    /\ sha3_bits_len = 0
    /\ sha3_error = "none"
    /\ wpc = "start"
    /\ target_bits = 0
    /\ batch_size = 1
    /\ use_dual_mixers = TRUE
    /\ method = "lsb"
    /\ bits_per_sample = 1
    /\ total_bits_generated = 0
    /\ all_raw_bits = << >>
    /\ all_processed_bits = << >>
    /\ files = [f \in FileNames |-> AbsentFile]
    /\ stream_open = FALSE
    /\ capture_calls = 0
    /\ extract_done = 0
    /\ mix_calls = 0
    /\ error = "none"
    /\ pc = "idle"

\* a generator as constructed (TrngGenerator.__init__), with output files of
\* an earlier run present or not
BatchInit ==
    /\ input_bits = << >>
    /\ steps = 0
    /\ mixed_buffer = << >>
    /\ occupied_positions = << >>
    /\ input_idx = 0
    /\ step = 1
    /\ output_bits = << >>
    /\ mpc = "idle"
    /\ dual_input = << >>
    /\ dual_output = << >>
    /\ dpc = "idle"
    /\ bits_arg = << >>
    /\ bytes_data = << >>
    /\ save_result = 0
    /\ fpc = "idle"
    /\ data_len = 0
    /\ sha3_target = 0
    /\ num_hashes_needed = 0
    /\ chunk_size = 0
    /\ sha3_hashes = << >>
    /\ sha3_bits_len = 0
    /\ sha3_error = "none"
    /\ wpc = "idle"
    /\ target_bits \in 0..MaxTarget
    /\ batch_size \in 1..MaxBatch
    /\ use_dual_mixers \in BOOLEAN
    /\ method \in Methods
    /\ bits_per_sample \in BitsPerSampleVals
    /\ total_bits_generated = 0
    /\ all_raw_bits = << >>
    /\ all_processed_bits = << >>
    /\ files \in {[f \in FileNames |-> AbsentFile], [f \in FileNames |-> StaleFile]}
    /\ stream_open = FALSE
    /\ capture_calls = 0
    /\ extract_done = 0
    /\ mix_calls = 0
    /\ error = "none"
    /\ pc = "constructed"

SpecMix == MixInit /\ [][MixNext]_vars

DualNext == ProcessDual

SpecDual == DualInit /\ [][DualNext]_vars

PackNext == SaveBitsToFile

SpecPack == PackInit /\ [][PackNext]_vars

SpecWhiten == WhitenInit /\ [][WhitenNext]_vars

SpecBatch == BatchInit /\ [][BatchNext]_vars

\* generate runs to its end: the loop is a plain sequential loop and every
\* capture returns
SpecBatchFair == SpecBatch /\ WF_vars(BatchNext)

----------------------------------------------------------------------------
\* Properties of the mixer (SpecMix).

Range(s) == {s[i] : i \in 1..Len(s)}

IsPowerOfTwo(x) == x >= 1 /\ 2 ^ FloorLog2(x) = x

MixReturned == mpc \in {"mixed", "done"}

\* the number of input bits _mix_bits has written into the buffer
PlacedCount ==
    IF steps = 1 THEN Min(Len(input_bits), 2) ELSE input_idx

\* C2 as stated: when _mix_bits returns, the buffer has at least as many
\* slots as there are input bits and every input bit has been placed.
C2_CapacityCoversInput ==
    MixReturned =>
        /\ BufLen(mixed_buffer) >= Len(input_bits)
        /\ PlacedCount = Len(input_bits)

\* C2 amended: when _mix_bits returns it has placed exactly min(n, m) input
\* bits, m = 2^(steps-1)+1; m >= n holds exactly when n <= 1 or n-1 is a
\* power of two, and for n >= 2 the buffer is never larger than the input.
C2_PlacesMinOfInputAndCapacity ==
    MixReturned =>
        LET n == Len(input_bits)
            m == BufLen(mixed_buffer)
        IN  /\ m = 2 ^ (steps - 1) + 1
            /\ PlacedCount = Min(n, m)
            /\ (m >= n) <=> (n <= 1 \/ IsPowerOfTwo(n - 1))
            /\ n >= 2 => m <= n

\* four input bits, a three-slot buffer, the fourth bit left unplaced
C2_Witness ==
    /\ mpc = "mixed"
    /\ Len(input_bits) = 4
    /\ BufLen(mixed_buffer) = 3
    /\ PlacedCount = 3

\* C7: an 8-bit input b0..b7 is mixed with steps = 3 in a 5-slot buffer;
\* b0 goes to slot 0 and b1 to slot 4, round 2 places b2 at slot 2, round 3
\* places b3 and b4 at slots 1 and 3, and the result is the two bits
\* [b0 XOR b3, b2 XOR b4]; the input 0,1,1,0,1,1,0,1 gives 0,0.
C7_EightBitExample ==
    Len(input_bits) = 8 =>
        LET b(i) == At(input_bits, i)
        IN  /\ mpc # "start" => steps = 3
            /\ mpc \in {"rounds", "mixed", "done"} =>
                   /\ DOMAIN mixed_buffer = 0..4
                   /\ mixed_buffer[0] = b(0)
                   /\ mixed_buffer[4] = b(1)
                   /\ step = 1 => /\ input_idx = 2
                                  /\ occupied_positions = <<0, 4>>
                                  /\ mpc = "rounds"
                   /\ step = 2 => /\ input_idx = 3
                                  /\ occupied_positions = <<0, 2, 4>>
                                  /\ mpc = "rounds"
                   /\ step >= 2 => mixed_buffer[2] = b(2)
                   /\ step = 3 => /\ input_idx = 5
                                  /\ occupied_positions = <<0, 1, 2, 3, 4>>
                                  /\ mixed_buffer[1] = b(3)
                                  /\ mixed_buffer[3] = b(4)
                   /\ step <= 3
                   /\ MixReturned => step = 3
            /\ mpc = "done" =>
                   /\ output_bits = <<Xor(b(0), b(3)), Xor(b(2), b(4))>>
                   /\ output_bits = <<Xor(mixed_buffer[0], mixed_buffer[1]),
                                      Xor(mixed_buffer[2], mixed_buffer[3])>>
                   /\ input_bits = <<0, 1, 1, 0, 1, 1, 0, 1>>
                          => output_bits = <<0, 0>>

C7_Witness ==
    /\ mpc = "done"
    /\ input_bits = <<0, 1, 1, 0, 1, 1, 0, 1>>
    /\ output_bits = <<0, 0>>

\* C8: with steps > 1, after the first two bits are placed and after every
\* round, occupied_positions is strictly increasing, lies in 0 .. m-1 with
\* m = 2^(steps-1)+1, and contains 0 and m-1.
C8_OccupiedPositionsSorted ==
    (steps > 1 /\ mpc \in {"rounds", "mixed", "done"}) =>
        LET m == 2 ^ (steps - 1) + 1
            n == Len(occupied_positions)
        IN  /\ \A i \in 1..(n - 1) :
                   occupied_positions[i] < occupied_positions[i + 1]
            /\ \A i \in 1..n : occupied_positions[i] \in 0..(m - 1)
            /\ 0 \in Range(occupied_positions)
            /\ (m - 1) \in Range(occupied_positions)

\* two rounds done and a third to come, five slots occupied
C8_Witness ==
    /\ mpc = "rounds"
    /\ step = 3
    /\ occupied_positions = <<0, 2, 4, 6, 8>>

\* The reference mixer of C9: fill state kept as a set of slots, apart from
\* the slot values.  st = [buf, filled, idx].
RECURSIVE SortedSeqOf(_)
SortedSeqOf(S) ==
    IF S = {} THEN << >>
    ELSE LET least == CHOOSE x \in S : \A y \in S : x <= y
         IN  <<least>> \o SortedSeqOf(S \ {least})

RECURSIVE RefScan(_, _, _, _)
RefScan(st, occ, bits, i) ==
    IF i > Len(occ) - 1 THEN st
    ELSE LET mid == (occ[i] + occ[i + 1]) \div 2
         IN  IF mid \notin st.filled /\ st.idx < Len(bits)
             THEN RefScan([buf    |-> [st.buf EXCEPT ![mid] = At(bits, st.idx)],
                           filled |-> st.filled \cup {mid},
                           idx    |-> st.idx + 1],
                          occ, bits, i + 1)
             ELSE RefScan(st, occ, bits, i + 1)

RECURSIVE RefAfter(_, _, _)
RefAfter(bits, nsteps, rounds) ==
    IF rounds = 0
    THEN LET m == 2 ^ (nsteps - 1) + 1
         IN  [buf    |-> [i \in 0..(m - 1) |->
                             IF i = 0 THEN At(bits, 0)
                             ELSE IF i = m - 1 THEN At(bits, 1) ELSE 0],
              filled |-> {0, m - 1},
              idx    |-> 2]
    ELSE LET st == RefAfter(bits, nsteps, rounds - 1)
         IN  RefScan(st, SortedSeqOf(st.filled), bits, 1)

\* C9: in every round a midpoint receives the next input bit exactly when
\* it has not been filled before and input remains: the buffer, the number
\* of consumed bits and the occupied slots equal, after every round, those
\* of the reference mixer that keeps fill state apart from the bit values,
\* so a filled slot holding 0 is never overwritten.
C9_PlacementIgnoresBitValues ==
    (steps > 1 /\ mpc \in {"rounds", "mixed", "done"}) =>
        LET ref == RefAfter(input_bits, steps, step - 1)
        IN  /\ mixed_buffer = ref.buf
            /\ input_idx = ref.idx
            /\ Range(occupied_positions) = ref.filled
            /\ Len(occupied_positions) = Cardinality(ref.filled)

\* every occupied slot holds bit value 0 and two rounds have run
C9_Witness ==
    /\ mpc = "rounds"
    /\ step = 3
    /\ Len(occupied_positions) = 5
    /\ \A i \in 1..Len(occupied_positions) :
           mixed_buffer[occupied_positions[i]] = 0

----------------------------------------------------------------------------
\* Properties of the dual mixer (SpecDual).

\* C6: the dual mixer returns the single-mixer result of bits[0 : n//2]
\* followed by that of bits[n//2 : n], each half with steps from its own
\* length, and its length is the sum of the two single-mixer lengths.
C6_DualIsTwoSingles ==
    dpc = "done" =>
        LET n      == Len(dual_input)
            first  == SubSeq(dual_input, 1, n \div 2)
            second == SubSeq(dual_input, (n \div 2) + 1, n)
            out1   == xor_adjacent_bits(
                          mix_bits(first, calculate_mixing_steps(Len(first))))
            out2   == xor_adjacent_bits(
                          mix_bits(second, calculate_mixing_steps(Len(second))))
        IN  /\ dual_output = out1 \o out2
            /\ out1 = process_with_single_mixer(first)
            /\ out2 = process_with_single_mixer(second)
            /\ Len(dual_output) = Len(out1) + Len(out2)

\* an odd input whose halves get different steps
C6_Witness ==
    /\ dpc = "done"
    /\ Len(dual_input) = 5
    /\ calculate_mixing_steps(2) # calculate_mixing_steps(3)
    /\ Len(dual_output) = 2

----------------------------------------------------------------------------
\* Properties of save_bits_to_file (SpecPack).

\* C5: save_bits_to_file returns the number of bits it was given, before
\* the zero padding to a byte boundary.
C5_ReturnsMeaningfulBitCount ==
    fpc = "saved" => save_result = Len(bits_arg)

----------------------------------------------------------------------------
\* Properties of _generate_and_save_sha3 (SpecWhiten).

\* C4: for target_bits > 0 and nonempty data the call computes exactly
\* ceil(target_bits / 256) hashes and returns exactly target_bits bits.
C4_WhitenExactLength ==
    (wpc \in {"done", "failed"} /\ sha3_target > 0 /\ data_len > 0) =>
        /\ wpc = "done"
        /\ Len(sha3_hashes) = (sha3_target + HashBits - 1) \div HashBits
        /\ sha3_bits_len = sha3_target

\* C11: within one call the hash invocations are the chunk hashes with
\* salts 0 .. min(num_hashes, available_chunks)-1 followed by the whole-data
\* hashes with counters available_chunks .. available_chunks+remaining-1;
\* all salts are pairwise distinct, every chunk lies inside the data and
\* no two chunks overlap.
C11_SaltsDistinctChunksDisjoint ==
    (wpc \in {"done", "failed"} /\ sha3_target > 0) =>
        LET available == data_len \div chunk_size
            nchunks   == Min(num_hashes_needed, available)
            remaining == num_hashes_needed - nchunks
            n         == Len(sha3_hashes)
        IN  /\ n = nchunks + remaining
            /\ \A k \in 1..nchunks :
                   /\ sha3_hashes[k].salt = k - 1
                   /\ sha3_hashes[k].lo = (k - 1) * chunk_size
                   /\ sha3_hashes[k].hi = k * chunk_size
                   /\ sha3_hashes[k].hi <= data_len
            /\ \A k \in (nchunks + 1)..n :
                   /\ sha3_hashes[k].salt = available + (k - nchunks - 1)
                   /\ sha3_hashes[k].lo = 0
                   /\ sha3_hashes[k].hi = data_len
            /\ \A j, k \in 1..n :
                   j # k => sha3_hashes[j].salt # sha3_hashes[k].salt
            /\ \A j, k \in 1..nchunks :
                   j < k => sha3_hashes[j].hi <= sha3_hashes[k].lo

----------------------------------------------------------------------------
\* Properties of generate (SpecBatch, SpecBatchFair).

LoopLeft == pc \in {"done", "failed"}

NoOutputFile == \A f \in FileNames : files[f] = AbsentFile

\* C1: every iteration of the batch loop adds at least one bit to
\* total_bits_generated, whatever the capture returned (no samples
\* included), and the loop is eventually left.
C1_BatchLoopTerminates ==
    /\ [][(pc = "loop" /\ pc' = "loop")
            => total_bits_generated' >= total_bits_generated + 1]_vars
    /\ <>LoopLeft

\* two captures without a sample, each worth one bit through the single
\* mixer although two were wanted, and the loop left
C1_Witness ==
    /\ LoopLeft
    /\ target_bits = 2
    /\ batch_size = 2
    /\ ~use_dual_mixers
    /\ capture_calls = 2
    /\ all_raw_bits = << >>
    /\ total_bits_generated = 2

\* C3 as stated: with an unknown extraction method (and a loop to run)
\* generate fails with the configuration error before any capture is
\* requested and before any mixing, and produces no output file.
C3_FailsBeforeAnyCapture ==
    (method \notin KnownMethods /\ target_bits >= 1) =>
        /\ capture_calls = 0
        /\ mix_calls = 0
        /\ LoopLeft => (error = "ValueError" /\ NoOutputFile)

\* C3 amended: with an unknown extraction method and target_bits >= 1,
\* generate fails with ValueError in its first iteration, after exactly one
\* capture was requested, before any bits are extracted or mixed, and no
\* output file exists afterwards.
C3_FailsAfterFirstCapture ==
    (method \notin KnownMethods /\ target_bits >= 1) =>
        /\ extract_done = 0
        /\ mix_calls = 0
        /\ all_raw_bits = << >>
        /\ all_processed_bits = << >>
        /\ pc # "done"
        /\ ~LoopLeft => capture_calls = 0
        /\ LoopLeft => /\ error = "ValueError"
                       /\ capture_calls = 1
                       /\ NoOutputFile
                       /\ ~stream_open

C3_Witness ==
    /\ method \notin KnownMethods
    /\ pc = "failed"
    /\ error = "ValueError"
    /\ capture_calls = 1

\* C10: total_bits_generated always equals the length of the accumulated
\* mixed bits and never exceeds target_bits, and once the loop is left
\* (target_bits >= 1, the extraction method known) the accumulated mixed
\* bits are exactly target_bits many.
C10_TotalIsAccumulatedLength ==
    /\ total_bits_generated = Len(all_processed_bits)
    /\ total_bits_generated <= target_bits
    /\ (LoopLeft /\ error # "ValueError" /\ target_bits >= 1)
           => Len(all_processed_bits) = target_bits

\* the dual mixer returns two bits or more per iteration, so with batches
\* of one bit every batch is cut to one bit
C10_Witness ==
    /\ LoopLeft
    /\ error # "ValueError"
    /\ use_dual_mixers
    /\ target_bits = 2
    /\ batch_size = 1
    /\ capture_calls = 2
    /\ Len(all_processed_bits) = 2

====
